---- MODULE Spec2Model ----
(***************************************************************************)
(* Ignite-Timer: the cycle store (contexts/CyclesContext.tsx) and the      *)
(* Countdown component that drives it (the interval effect).               *)
(*                                                                         *)
(* Time.  Date.getTime() is modelled by the variable `now`, counted in     *)
(* clock units of 1/UnitsPerSecond second.  The clock only moves forward   *)
(* and only to the instants of `Instants`: from them a one-minute cycle    *)
(* is seen unfinished, finished on time and finished late.                 *)
(*                                                                         *)
(* React.  A state update re-renders the provider and the Countdown; the   *)
(* Countdown's effect (cleanup of the previous interval, then set-up of    *)
(* the new one) runs some time after the render is committed.  The moment  *)
(* is not fixed by useEffect's contract, so RunEffect is an action of its  *)
(* own and the previous interval stays live until it runs.                 *)
(***************************************************************************)
EXTENDS Integers, Sequences, FiniteSets, TLC

----------------------------------------------------------------------------
(* Bounds of the model *)

MaxCycles == 2
MaxMinutes == 2
UnitsPerSecond == 2

\* the fractions of a minute the minutes field can hold
PartsPerMinute == 2

(* Program constants *)

SecondsPerMinute == 60
IntervalSeconds == 1

Tasks == {"a", "b"}
MinutesAmounts == 0..MaxMinutes

MinuteUnits == SecondsPerMinute * UnitsPerSecond

\* a second and a fraction
LateUnits == UnitsPerSecond + 1

\* the instants the clock is read at: the start, a second and a fraction
\* later, and that long after the first minute
Instants == {0, LateUnits, MinuteUnits + LateUnits}

----------------------------------------------------------------------------
(* Values *)

\* `undefined` for the optional dates of a cycle
undefined == -1

\* activeCycleId: null.  Ids are non-empty digit strings, null is none of them.
null == <<>>

\* String(n) for a non-negative integer: its decimal digits
RECURSIVE String(_)
String(n) == IF n < 10 THEN <<n>> ELSE Append(String(n \div 10), n % 10)

\* date-fns differenceInSeconds(later, earlier): whole seconds, truncated
differenceInSeconds(dateLeft, dateRight) ==
  (dateLeft - dateRight) \div UnitsPerSecond

\* cycles.find((cycle) => cycle.id === id): index of the first match, 0 if none
RECURSIVE findFrom(_, _, _)
findFrom(cs, id, i) ==
  IF i > Len(cs) THEN 0
  ELSE IF cs[i].id = id THEN i
  ELSE findFrom(cs, id, i + 1)

find(cs, id) == findFrom(cs, id, 1)

----------------------------------------------------------------------------
VARIABLES
  cycles,               \* cyclesState.cycles
  activeCycleId,        \* cyclesState.activeCycleId
  amountSecondsPassed,  \* useState(0) of the provider
  now,                  \* the wall clock
  interval,             \* the live setInterval of Countdown's effect, or noInterval
  effectPending,        \* a render was committed whose effect has not run yet
  finishIntents,        \* per cycle, the finish intents its intervals issued
                        \* (history, kept by TimerSpec only)
  form,                 \* the values of Home's useForm (FormSpec only)
  defaultCase           \* the last dispatch was handled by the default case
                        \* of the reducer (history, kept by StoreSpec only)

vars ==
  <<cycles, activeCycleId, amountSecondsPassed, now, interval, effectPending,
    finishIntents, form, defaultCase>>

noInterval == [live |-> FALSE]

\* const activeCycle = cycles.find(...): 0 stands for undefined
activeCycle == find(cycles, activeCycleId)

\* const totalSeconds = activeCycle ? activeCycle.minutesAmount * 60 : 0
totalSecondsOf(cs, idx) ==
  IF idx # 0 THEN cs[idx].minutesAmount * SecondsPerMinute ELSE 0

totalSeconds == totalSecondsOf(cycles, activeCycle)

----------------------------------------------------------------------------
(* The reducer *)

newCycleOf(data, t) ==
  [id |-> String(t),
   task |-> data.task,
   minutesAmount |-> data.minutesAmount,
   startDate |-> t,
   interruptedDate |-> undefined,
   finishedDate |-> undefined]

\* as ADD_NEW_CYCLE, but the new cycle is put in front of the list
ADD_NEW_CYCLE_Prepends(state, newCycle) ==
  [cycles |-> <<newCycle>> \o state.cycles,
   activeCycleId |-> newCycle.id]

\* as ADD_NEW_CYCLE, but the active pointer is left as it was
ADD_NEW_CYCLE_KeepsPointer(state, newCycle) ==
  [cycles |-> Append(state.cycles, newCycle),
   activeCycleId |-> state.activeCycleId]

ADD_NEW_CYCLE(state, newCycle) ==
  [cycles |-> Append(state.cycles, newCycle),
   activeCycleId |-> newCycle.id]

\* as INTERRUPT_CURRENT_CYCLE, but every cycle is stamped, whatever its id
INTERRUPT_CURRENT_CYCLE_StampsAll(state, t) ==
  [cycles |->
     [i \in 1..Len(state.cycles) |->
        [state.cycles[i] EXCEPT !.interruptedDate = t]],
   activeCycleId |-> null]

INTERRUPT_CURRENT_CYCLE(state, t) ==
  [cycles |->
     [i \in 1..Len(state.cycles) |->
        IF state.cycles[i].id = state.activeCycleId
        THEN [state.cycles[i] EXCEPT !.interruptedDate = t]
        ELSE state.cycles[i]],
   activeCycleId |-> null]

MARK_CURRENT_CYCLE_AS_FINISHED(state, t) ==
  [cycles |->
     [i \in 1..Len(state.cycles) |->
        IF state.cycles[i].id = state.activeCycleId
        THEN [state.cycles[i] EXCEPT !.finishedDate = t]
        ELSE state.cycles[i]],
   activeCycleId |-> null]

\* as reducer, but an action of another type empties the store
reducer_DefaultResets(state, action, t) ==
  CASE action.type = "ADD_NEW_CYCLE" ->
         ADD_NEW_CYCLE(state, action.payload)
    [] action.type = "INTERRUPT_CURRENT_CYCLE" ->
         INTERRUPT_CURRENT_CYCLE(state, t)
    [] action.type = "MARK_CURRENT_CYCLE_AS_FINISHED" ->
         MARK_CURRENT_CYCLE_AS_FINISHED(state, t)
    [] OTHER -> [cycles |-> <<>>, activeCycleId |-> null]

\* action.payload is the new cycle for ADD_NEW_CYCLE and is not read otherwise;
\* t is the value of `new Date()` inside the reducer
reducer(state, action, t) ==
  CASE action.type = "ADD_NEW_CYCLE" ->
         ADD_NEW_CYCLE(state, action.payload)
    [] action.type = "INTERRUPT_CURRENT_CYCLE" ->
         INTERRUPT_CURRENT_CYCLE(state, t)
    [] action.type = "MARK_CURRENT_CYCLE_AS_FINISHED" ->
         MARK_CURRENT_CYCLE_AS_FINISHED(state, t)
    [] OTHER -> state

cyclesState == [cycles |-> cycles, activeCycleId |-> activeCycleId]

\* dispatch(action): the store becomes reducer(store, action)
dispatch(action) ==
  LET next == reducer(cyclesState, action, now)
  IN /\ cycles' = next.cycles
     /\ activeCycleId' = next.activeCycleId

----------------------------------------------------------------------------
\* a JavaScript number of the minutes field, as its count of 1/PartsPerMinute
\* minutes; NaN is what valueAsNumber gives for an empty field
Number(parts) == [parts |-> parts]

NaN == [nan |-> TRUE]

defaultValues == [task |-> <<>>, minutesAmount |-> Number(0)]

Init ==
  /\ cycles = <<>>
  /\ activeCycleId = null
  /\ amountSecondsPassed = 0
  /\ now = 0
  /\ interval = noInterval
  /\ effectPending = FALSE
  /\ finishIntents = [i \in 1..MaxCycles |-> 0]
  /\ form = defaultValues
  /\ defaultCase = FALSE

(* The operations of the provider *)

createNewCycle(data) ==
  /\ Len(cycles) < MaxCycles
  /\ dispatch([type |-> "ADD_NEW_CYCLE", payload |-> newCycleOf(data, now)])
  /\ amountSecondsPassed' = 0
  /\ effectPending' = TRUE
  /\ UNCHANGED <<now, interval>>

interruptCurrentCycle ==
  /\ dispatch([type |-> "INTERRUPT_CURRENT_CYCLE", payload |-> activeCycleId])
  /\ effectPending' = TRUE
  /\ UNCHANGED <<amountSecondsPassed, now, interval>>

markCurrentCycleAsFinished ==
  /\ dispatch([type |-> "MARK_CURRENT_CYCLE_AS_FINISHED",
               payload |-> activeCycleId])
  /\ effectPending' = TRUE
  /\ UNCHANGED <<amountSecondsPassed, now, interval>>

(* Countdown: the effect and the interval callback *)

\* the effect of the last committed render: the cleanup clears the previous
\* interval, then an interval is set if there is an active cycle; its callback
\* closes over activeCycle and totalSeconds of that render
RunEffect ==
  /\ effectPending
  /\ interval' =
       IF activeCycle # 0
       THEN [live |-> TRUE,
             owner |-> activeCycle,
             startDate |-> cycles[activeCycle].startDate,
             totalSeconds |-> totalSeconds,
             due |-> FALSE]
       ELSE noInterval
  /\ effectPending' = FALSE
  /\ UNCHANGED <<cycles, activeCycleId, amountSecondsPassed, now>>

\* as Tick, but the finish branch does not clear the interval
Tick_KeepsInterval ==
  /\ interval.live
  /\ interval.due
  /\ LET secondsDifference == differenceInSeconds(now, interval.startDate)
     IN IF secondsDifference >= interval.totalSeconds
        THEN /\ dispatch([type |-> "MARK_CURRENT_CYCLE_AS_FINISHED",
                          payload |-> activeCycleId])
             /\ amountSecondsPassed' = interval.totalSeconds
             /\ interval' = [interval EXCEPT !.due = FALSE]
        ELSE /\ amountSecondsPassed' = secondsDifference
             /\ interval' = [interval EXCEPT !.due = FALSE]
             /\ UNCHANGED <<cycles, activeCycleId>>
  /\ effectPending' = TRUE
  /\ UNCHANGED now

\* one run of the interval callback, at least one interval period after the
\* interval was set or last fired
Tick ==
  /\ interval.live
  /\ interval.due
  /\ LET secondsDifference == differenceInSeconds(now, interval.startDate)
     IN IF secondsDifference >= interval.totalSeconds
        THEN /\ dispatch([type |-> "MARK_CURRENT_CYCLE_AS_FINISHED",
                          payload |-> activeCycleId])
             /\ amountSecondsPassed' = interval.totalSeconds
             /\ interval' = noInterval
        ELSE /\ amountSecondsPassed' = secondsDifference
             /\ interval' = [interval EXCEPT !.due = FALSE]
             /\ UNCHANGED <<cycles, activeCycleId>>
  /\ effectPending' = TRUE
  /\ UNCHANGED now

(* The environment: time passes *)

\* the clock moves to a later instant; a live interval falls due once a whole
\* interval period has passed in one move
Advance ==
  /\ \E t \in Instants :
       /\ t > now
       /\ now' = t
       /\ interval' =
            IF interval.live /\ t - now >= IntervalSeconds * UnitsPerSecond
            THEN [interval EXCEPT !.due = TRUE]
            ELSE interval
  /\ UNCHANGED <<cycles, activeCycleId, amountSecondsPassed, effectPending>>

Next ==
  \/ /\ \E task \in Tasks, minutesAmount \in MinutesAmounts :
          createNewCycle([task |-> task, minutesAmount |-> minutesAmount])
     /\ UNCHANGED <<finishIntents, form, defaultCase>>
  \/ interruptCurrentCycle /\ UNCHANGED <<finishIntents, form, defaultCase>>
  \/ markCurrentCycleAsFinished /\ UNCHANGED <<finishIntents, form, defaultCase>>
  \/ RunEffect /\ UNCHANGED <<finishIntents, form, defaultCase>>
  \/ Tick /\ UNCHANGED <<finishIntents, form, defaultCase>>
  \/ Advance /\ UNCHANGED <<finishIntents, form, defaultCase>>

Spec == Init /\ [][Next]_vars

----------------------------------------------------------------------------
(* The application as it is wired: markCurrentCycleAsFinished is called by *)
(* the interval callback only (Router.tsx:65), the timer and the effects   *)
(* are scheduled fairly, and time does not end.  finishIntents records     *)
(* which cycle's interval issued a finish intent.                          *)

LastInstant == MinuteUnits + LateUnits

\* the reading that stands for every time after the last instant
Beyond == LastInstant + IntervalSeconds * UnitsPerSecond

\* the callback of the live interval takes its finish branch at this reading
Completes ==
  /\ interval.live
  /\ differenceInSeconds(now, interval.startDate) >= interval.totalSeconds

\* time goes on after the last instant: another interval period passes, the
\* reading stays at Beyond, a live interval falls due
Elapse ==
  /\ now >= LastInstant
  /\ now' = Beyond
  /\ interval' = IF interval.live THEN [interval EXCEPT !.due = TRUE]
                                  ELSE interval
  /\ UNCHANGED <<cycles, activeCycleId, amountSecondsPassed, effectPending>>

CountedTick ==
  /\ Tick
  /\ finishIntents' =
       IF Completes
       THEN [finishIntents EXCEPT
               ![interval.owner] = IF @ < 2 THEN @ + 1 ELSE @]
       ELSE finishIntents
  /\ UNCHANGED <<form, defaultCase>>

EffectStep == RunEffect /\ UNCHANGED <<finishIntents, form, defaultCase>>

ClockStep == (Advance \/ Elapse) /\ UNCHANGED <<finishIntents, form, defaultCase>>

\* cycles are created up to the last instant
TimerNext ==
  \/ /\ now <= LastInstant
     /\ \E task \in Tasks, minutesAmount \in MinutesAmounts :
          createNewCycle([task |-> task, minutesAmount |-> minutesAmount])
     /\ UNCHANGED <<finishIntents, form, defaultCase>>
  \/ interruptCurrentCycle /\ UNCHANGED <<finishIntents, form, defaultCase>>
  \/ EffectStep
  \/ CountedTick
  \/ ClockStep

TimerSpec ==
  /\ Init
  /\ [][TimerNext]_vars
  /\ WF_vars(CountedTick)
  /\ WF_vars(EffectStep)
  /\ WF_vars(ClockStep)

----------------------------------------------------------------------------
(* The store alone: the three operations of the context, the clock, and a  *)
(* dispatch of an action the reducer has no case for.                      *)

OtherTypes == {"", "add_new_cycle", "RESET"}

\* dispatch of an action of another type, with a new cycle or the active id
\* as its payload
DispatchOther ==
  /\ \E type \in OtherTypes :
       \/ dispatch([type |-> type, payload |-> activeCycleId])
       \/ \E task \in Tasks, minutesAmount \in MinutesAmounts :
            dispatch([type |-> type,
                      payload |-> newCycleOf([task |-> task,
                                              minutesAmount |-> minutesAmount],
                                             now)])
  /\ defaultCase' = TRUE
  /\ UNCHANGED <<amountSecondsPassed, now, interval, effectPending,
                 finishIntents, form>>

StoreNext ==
  \/ /\ \E task \in Tasks, minutesAmount \in MinutesAmounts :
          createNewCycle([task |-> task, minutesAmount |-> minutesAmount])
     /\ defaultCase' = FALSE
     /\ UNCHANGED <<finishIntents, form>>
  \/ interruptCurrentCycle /\ defaultCase' = FALSE
       /\ UNCHANGED <<finishIntents, form>>
  \/ markCurrentCycleAsFinished /\ defaultCase' = FALSE
       /\ UNCHANGED <<finishIntents, form>>
  \/ Advance /\ UNCHANGED <<finishIntents, form, defaultCase>>
  \/ DispatchOther

StoreSpec == Init /\ [][StoreNext]_vars

----------------------------------------------------------------------------
(* Home's form: the registered fields, the zod schema and handleSubmit.    *)
(* A task is the sequence of its characters.                               *)

MinMinutesAmount == 1
MaxMinutesAmount == 60

TaskTexts == {<<>>, <<" ">>, <<"a">>}

FieldNumbers ==
  {NaN} \cup
  {Number(parts) : parts \in
     {0, MinMinutesAmount * PartsPerMinute,
      MinMinutesAmount * PartsPerMinute + 1,
      MaxMinutesAmount * PartsPerMinute,
      (MaxMinutesAmount + 1) * PartsPerMinute}}

\* zod.string().min(1): at least one character, whatever it is
zodTask(task) == Len(task) >= 1

\* zod.number().min(1).max(60): a number, not NaN, within the two limits
zodMinutesAmount(minutesAmount) ==
  /\ minutesAmount # NaN
  /\ minutesAmount.parts >= MinMinutesAmount * PartsPerMinute
  /\ minutesAmount.parts <= MaxMinutesAmount * PartsPerMinute

newCycleFormValidationSchema(data) ==
  /\ zodTask(data.task)
  /\ zodMinutesAmount(data.minutesAmount)

\* const isSubmitDisabled = !task
isSubmitDisabled == form.task = <<>>

\* onChange of a registered input
ChangeField ==
  /\ \E task \in TaskTexts, minutesAmount \in FieldNumbers :
       form' = [task |-> task, minutesAmount |-> minutesAmount]
  /\ UNCHANGED <<cycles, activeCycleId, amountSecondsPassed, now, interval,
                 effectPending, finishIntents, defaultCase>>

\* handleSubmit(handleCreateNewCycle) on a submit event: the resolver checks
\* the values; when they pass, handleCreateNewCycle creates the cycle and
\* resets the form, otherwise nothing is called
Submit ==
  IF newCycleFormValidationSchema(form)
  THEN /\ createNewCycle(form)
       /\ form' = defaultValues
       /\ UNCHANGED <<finishIntents, defaultCase>>
  ELSE UNCHANGED vars

FormNext ==
  \/ ChangeField
  \/ Submit

FormSpec == Init /\ [][FormNext]_vars

----------------------------------------------------------------------------
(* The view: what Home and NewCycleForm render lets the user do.           *)

\* the inputs are rendered with disabled={!!activeCycle}
TypeField ==
  /\ activeCycle = 0
  /\ ChangeField

\* the Start button, of type submit, is rendered when there is no
\* activeCycle, with disabled={isSubmitDisabled}
ClickStart ==
  /\ activeCycle = 0
  /\ ~isSubmitDisabled
  /\ Submit

\* the Stop button is rendered when there is an activeCycle
ClickStop ==
  /\ activeCycle # 0
  /\ interruptCurrentCycle
  /\ UNCHANGED <<finishIntents, form, defaultCase>>

\* as ViewNext, but the inputs are never disabled and the Start button is
\* rendered whatever the state
ViewNext_IgnoresActiveCycle ==
  \/ ChangeField
  \/ ~isSubmitDisabled /\ Submit
  \/ ClickStop
  \/ Advance /\ UNCHANGED <<finishIntents, form, defaultCase>>

ViewNext ==
  \/ TypeField
  \/ ClickStart
  \/ ClickStop
  \/ Advance /\ UNCHANGED <<finishIntents, form, defaultCase>>

ViewSpec == Init /\ [][ViewNext]_vars

----------------------------------------------------------------------------
(* Vocabulary of the properties *)

IsTerminal(cycle) ==
  cycle.interruptedDate # undefined \/ cycle.finishedDate # undefined

Open == {i \in 1..Len(cycles) : ~IsTerminal(cycles[i])}

Inputs == [task : Tasks, minutesAmount : MinutesAmounts]

\* every cycle of the list was created from a valid minutesAmount
AllValid == \A i \in 1..Len(cycles) : cycles[i].minutesAmount > 0

----------------------------------------------------------------------------
(* C1: in every reachable state at most one cycle of the list lacks both  *)
(* interruptedDate and finishedDate.                                       *)
C1_AtMostOneOpenCycle == Cardinality(Open) <= 1

(* C2: for every valid (task, minutesAmount), createNewCycle appends       *)
(* exactly one cycle, whose startDate is the creation time and which has   *)
(* neither interruptedDate nor finishedDate, makes activeCycleId its id    *)
(* and resets amountSecondsPassed to 0.                                    *)
C2_CreateAppendsActiveCycle ==
  [][\A data \in Inputs :
       (data.minutesAmount > 0 /\ createNewCycle(data)) =>
         /\ Len(cycles') = Len(cycles) + 1
         /\ SubSeq(cycles', 1, Len(cycles)) = cycles
         /\ cycles'[Len(cycles')].task = data.task
         /\ cycles'[Len(cycles')].minutesAmount = data.minutesAmount
         /\ cycles'[Len(cycles')].startDate = now
         /\ cycles'[Len(cycles')].interruptedDate = undefined
         /\ cycles'[Len(cycles')].finishedDate = undefined
         /\ activeCycleId' = cycles'[Len(cycles')].id
         /\ activeCycleId' # null
         /\ amountSecondsPassed' = 0]_vars

\* a second cycle has just been created, after the first one's countdown had
\* shown elapsed seconds: it is the open cycle the pointer names, started now,
\* and the counter is back at 0
C2_Witness ==
  /\ Len(cycles) = 2
  /\ now > 0
  /\ cycles[2].startDate = now
  /\ cycles[2].minutesAmount > 0
  /\ cycles[1].startDate < now
  /\ IsTerminal(cycles[1])
  /\ ~IsTerminal(cycles[2])
  /\ activeCycleId = cycles[2].id
  /\ amountSecondsPassed = 0
  /\ effectPending

(* C3: createNewCycle with a minutesAmount that is not greater than 0 is   *)
(* rejected: the cycle list and the active pointer are unchanged.          *)
C3_RejectsNonPositiveMinutes ==
  [][\A data \in Inputs :
       (data.minutesAmount <= 0 /\ createNewCycle(data)) =>
         UNCHANGED <<cycles, activeCycleId>>]_vars

(* C4: when a cycle is created while another one is active, either the     *)
(* creation is rejected or the replaced cycle's interval is cancelled      *)
(* first: the interval of a cycle that was replaced (it is neither         *)
(* interrupted nor finished, and another cycle is active) never ticks.     *)
(* Stated for cycles created from valid input.                             *)
C4_NoTickOfReplacedCycle ==
  [][Tick =>
       ~(/\ AllValid
         /\ activeCycle # 0
         /\ interval.owner # activeCycle
         /\ ~IsTerminal(cycles[interval.owner]))]_vars

(* C5: no cycle has both interruptedDate and finishedDate set.             *)
C5_AtMostOneTerminalDate ==
  \A i \in 1..Len(cycles) :
    ~(cycles[i].interruptedDate # undefined /\ cycles[i].finishedDate # undefined)

(* C6: once a cycle has interruptedDate or finishedDate set, no later      *)
(* operation changes any of its fields.                                    *)
C6_TerminalCycleImmutable ==
  [][\A i \in 1..Len(cycles) :
       IsTerminal(cycles[i]) => (i <= Len(cycles') /\ cycles'[i] = cycles[i])]_vars

(* C7: no two cycles of the list have the same id, also when they are      *)
(* created at the same clock reading.                                      *)
C7_IdsUnique ==
  \A i, j \in 1..Len(cycles) : i # j => cycles[i].id # cycles[j].id

(* C8: whenever a cycle is active, amountSecondsPassed does not exceed     *)
(* that cycle's minutesAmount * 60.  Stated for cycles created from valid  *)
(* input.                                                                  *)
C8_ElapsedWithinTotal ==
  (AllValid /\ activeCycle # 0) => amountSecondsPassed <= totalSeconds

(* C9: interruptCurrentCycle with an active cycle sets interruptedDate to  *)
(* now on exactly the active cycle, leaves its finishedDate unset and sets *)
(* activeCycleId to null.                                                  *)
C9_InterruptStampsActiveOnly ==
  [][(activeCycle # 0 /\ interruptCurrentCycle) =>
       /\ activeCycleId' = null
       /\ Len(cycles') = Len(cycles)
       /\ \A i \in 1..Len(cycles) :
            cycles'[i] =
              IF i = activeCycle
              THEN [cycles[i] EXCEPT !.interruptedDate = now]
              ELSE cycles[i]
       /\ cycles'[activeCycle].finishedDate = undefined]_vars

(* C10: markCurrentCycleAsFinished with an active cycle sets finishedDate  *)
(* to now on exactly the active cycle and sets activeCycleId to null.      *)
C10_FinishStampsActiveOnly ==
  [][(activeCycle # 0 /\ markCurrentCycleAsFinished) =>
       /\ activeCycleId' = null
       /\ Len(cycles') = Len(cycles)
       /\ \A i \in 1..Len(cycles) :
            cycles'[i] =
              IF i = activeCycle
              THEN [cycles[i] EXCEPT !.finishedDate = now]
              ELSE cycles[i]]_vars

(* C11: interruptCurrentCycle and markCurrentCycleAsFinished called when   *)
(* activeCycleId is null change no cycle of the list and leave             *)
(* activeCycleId null.                                                     *)
C11_NoActiveCycleNoOp ==
  [][(activeCycleId = null /\ (interruptCurrentCycle \/ markCurrentCycleAsFinished)) =>
       /\ Len(cycles') = Len(cycles)
       /\ \A i \in 1..Len(cycles) : cycles'[i] = cycles[i]
       /\ activeCycleId' = null]_vars

\* no cycle is active, the list holds cycles that an unguarded stamp would
\* touch, and a render is pending although no interval was left to clean up
C11_Witness ==
  /\ activeCycleId = null
  /\ Len(cycles) = 2
  /\ cycles[1].interruptedDate # undefined
  /\ cycles[1].finishedDate = undefined
  /\ cycles[2].finishedDate # undefined
  /\ cycles[2].interruptedDate = undefined
  /\ ~interval.live
  /\ effectPending

(* C12: the cycle list is append-only: no operation removes or reorders a  *)
(* cycle, and the id, task, minutesAmount and startDate of a cycle of the  *)
(* list never change.                                                      *)
C12_ListAppendOnly ==
  [][/\ Len(cycles') >= Len(cycles)
     /\ \A i \in 1..Len(cycles) :
          /\ cycles'[i].id = cycles[i].id
          /\ cycles'[i].task = cycles[i].task
          /\ cycles'[i].minutesAmount = cycles[i].minutesAmount
          /\ cycles'[i].startDate = cycles[i].startDate]_vars

\* two different cycles, the first created earlier and stamped since, the
\* second appended behind it
C12_Witness ==
  /\ Len(cycles) = 2
  /\ cycles[1].task # cycles[2].task
  /\ cycles[1].minutesAmount # cycles[2].minutesAmount
  /\ cycles[1].startDate < cycles[2].startDate
  /\ IsTerminal(cycles[1])
  /\ cycles[1].interruptedDate >= cycles[2].startDate

(* C13: the countdown issues the finish intent once per cycle: after the   *)
(* tick that finds the elapsed seconds at or above the total, no later     *)
(* tick of that cycle's timer issues a second one.                         *)
C13_FinishIntentOnce ==
  \A i \in 1..MaxCycles : finishIntents[i] <= 1

\* the first cycle ran to its end, its interval issued the finish intent and
\* stamped it, the effect of that render has run, and time went on
C13_Witness ==
  /\ Len(cycles) >= 1
  /\ finishIntents[1] = 1
  /\ cycles[1].finishedDate # undefined
  /\ cycles[1].minutesAmount > 0
  /\ cycles[1].finishedDate < now
  /\ activeCycleId = null
  /\ ~effectPending

(* C14: the interval is cancelled whenever its cycle stops being the       *)
(* active one: no live interval belongs to a cycle other than the active   *)
(* cycle.                                                                  *)
C14_LiveTimerIsOfActiveCycle ==
  interval.live => (activeCycle # 0 /\ interval.owner = activeCycle)

(* C15: a cycle that is created and never interrupted eventually is        *)
(* finished, with finishedDate set, interruptedDate unset and              *)
(* activeCycleId null.  Stated for the cycles created from valid input,    *)
(* with an id of their own, whose end lies within the clock of the model.  *)
C15_CycleEventuallyFinished ==
  \A i \in 1..MaxCycles :
    (/\ Len(cycles) >= i
     /\ ~IsTerminal(cycles[i])
     /\ \A j \in 1..Len(cycles) : j # i => cycles[j].id # cycles[i].id
     /\ cycles[i].minutesAmount > 0
     /\ cycles[i].startDate + cycles[i].minutesAmount * MinuteUnits <= Beyond)
      ~> (/\ Len(cycles) >= i
          /\ \/ cycles[i].interruptedDate # undefined
             \/ /\ cycles[i].finishedDate # undefined
                /\ activeCycleId = null)

(* C16: the tick that completes a cycle stores exactly that cycle's        *)
(* minutesAmount * 60 as the elapsed seconds, whatever the overshoot.      *)
(* Stated for cycles created from valid input and with distinct ids; the   *)
(* cycle a tick completes is the one that receives its finishedDate in     *)
(* that step.                                                              *)
C16_CompletingTickStoresTotal ==
  [][(Tick /\ Completes /\ AllValid /\ C7_IdsUnique) =>
       \A i \in 1..Len(cycles) :
         (cycles[i].finishedDate = undefined /\ cycles'[i].finishedDate # undefined)
           => amountSecondsPassed' = cycles[i].minutesAmount * SecondsPerMinute]_vars

(* C17: after interruptCurrentCycle no timer tick changes                  *)
(* amountSecondsPassed until a new cycle is created.                       *)
C17_CounterStopsAfterInterrupt ==
  [][(/\ Tick
      /\ activeCycleId = null
      /\ Len(cycles) > 0
      /\ cycles[Len(cycles)].interruptedDate # undefined
      /\ cycles[Len(cycles)].finishedDate = undefined) =>
       amountSecondsPassed' = amountSecondsPassed]_vars

(* C18: the elapsed value a non-completing tick writes is the whole        *)
(* seconds between now and the startDate of the cycle that is active at    *)
(* that tick, never those of a previous cycle.  Stated for cycles created  *)
(* from valid input.                                                       *)
C18_ElapsedFromActiveStartDate ==
  [][(Tick /\ ~Completes /\ AllValid /\ activeCycle # 0) =>
       amountSecondsPassed' =
         differenceInSeconds(now, cycles[activeCycle].startDate)]_vars

RECURSIVE trimStart(_)
trimStart(text) ==
  IF text # <<>> /\ Head(text) = " " THEN trimStart(Tail(text)) ELSE text

RECURSIVE trimEnd(_)
trimEnd(text) ==
  IF text # <<>> /\ text[Len(text)] = " "
  THEN trimEnd(SubSeq(text, 1, Len(text) - 1))
  ELSE text

trim(text) == trimEnd(trimStart(text))

\* the values the form is said to accept: a task that is not empty and an
\* integer number of minutes from 1 to 60
IsAcceptable(data) ==
  /\ data.task # <<>>
  /\ data.minutesAmount # NaN
  /\ data.minutesAmount.parts % PartsPerMinute = 0
  /\ data.minutesAmount.parts >= MinMinutesAmount * PartsPerMinute
  /\ data.minutesAmount.parts <= MaxMinutesAmount * PartsPerMinute

(* C19: a submission whose task is empty or whose minutesAmount is not an  *)
(* integer from 1 to 60 never creates a cycle: it leaves the list, the     *)
(* active cycle and the elapsed counter unchanged.                         *)
C19_InvalidSubmissionRejected ==
  [][(Submit /\ ~IsAcceptable(form)) =>
       UNCHANGED <<cycles, activeCycleId, amountSecondsPassed>>]_vars

(* C20: no cycle of the list has a task that is empty after trimming.      *)
C20_NoBlankTask ==
  \A i \in 1..Len(cycles) : trim(cycles[i].task) # <<>>

\* the minimum that the message of the minutes check states
StatedMinMinutesAmount == 5

(* C21: the form rejects a minutesAmount below the 5 minutes its message   *)
(* states: no cycle created through the form has a minutesAmount of 1, 2,  *)
(* 3 or 4.                                                                 *)
C21_NoCycleBelowStatedMinimum ==
  \A i \in 1..Len(cycles) :
    \A minutes \in MinMinutesAmount..(StatedMinMinutesAmount - 1) :
      cycles[i].minutesAmount # Number(minutes * PartsPerMinute)

(* C22: dispatching an action whose type is none of ADD_NEW_CYCLE,         *)
(* INTERRUPT_CURRENT_CYCLE, MARK_CURRENT_CYCLE_AS_FINISHED leaves the      *)
(* cycle list and activeCycleId unchanged.                                 *)
C22_OtherActionLeavesStore ==
  [][DispatchOther => (cycles' = cycles /\ activeCycleId' = activeCycleId)]_vars

\* the last dispatch went to the default case, on a store with an
\* interrupted cycle and an active one
C22_Witness ==
  /\ defaultCase
  /\ Len(cycles) = 2
  /\ cycles[1].interruptedDate # undefined
  /\ cycles[1].id # cycles[2].id
  /\ activeCycleId = cycles[2].id
  /\ ~IsTerminal(cycles[2])

(* C23: every cycle that lacks both terminal timestamps is the one         *)
(* activeCycleId points to: with a null pointer every cycle is terminal,   *)
(* otherwise every cycle other than the pointed one is terminal.           *)
C23_OpenCycleIsActiveCycle ==
  \A i \in 1..Len(cycles) :
    ~IsTerminal(cycles[i]) => (activeCycleId # null /\ cycles[i].id = activeCycleId)

(* C24: a finish intent issued by the interval of cycle A stamps           *)
(* finishedDate on no cycle other than A.  Stated for cycles created from  *)
(* valid input and with distinct ids.                                      *)
C24_FinishIntentStampsOwnCycle ==
  [][(Tick /\ AllValid /\ C7_IdsUnique) =>
       \A i \in 1..Len(cycles) :
         (cycles[i].finishedDate = undefined /\ cycles'[i].finishedDate # undefined)
           => i = interval.owner]_vars

(* C25: every finished cycle ran its full duration: finishedDate minus     *)
(* startDate is at least minutesAmount * 60 seconds.  Stated for cycles    *)
(* created from valid input and with distinct ids.                         *)
C25_FinishedRanFullDuration ==
  (AllValid /\ C7_IdsUnique) =>
    \A i \in 1..Len(cycles) :
      cycles[i].finishedDate # undefined =>
        cycles[i].finishedDate - cycles[i].startDate >=
          cycles[i].minutesAmount * MinuteUnits

(* C26: through the view a cycle is created only while no cycle is active  *)
(* and the interrupt is issued only while one is active.                   *)
C26_ViewCreatesOnlyWhenIdle ==
  [][/\ Len(cycles') > Len(cycles) => activeCycle = 0
     /\ (interruptCurrentCycle /\ UNCHANGED form) => activeCycle # 0]_vars

\* a second cycle was started from the form after the first was stopped,
\* and is running
C26_Witness ==
  /\ Len(cycles) = 2
  /\ cycles[1].interruptedDate # undefined
  /\ cycles[1].startDate < cycles[2].startDate
  /\ activeCycle = 2
  /\ ~IsTerminal(cycles[2])
  /\ form = defaultValues

====
